---------------------------- MODULE Spec2Model ----------------------------
(* Model of docs/docs/how-tos/streaming-specific-nodes.ipynb:               *)
(*   - the helper _set_env (cell 2),                                        *)
(*   - the node functions write_joke / write_poem and the graph (cell 3),   *)
(*   - the filter loop over graph.stream(..., stream_mode="messages")       *)
(*     (cell 4).                                                            *)
(* The graph engine behind StateGraph / compile / stream is not part of the *)
(* notebook; its superstep, message queue and state merge are modelled      *)
(* from the description the notebook and its specification give of it.      *)
(* Text is modelled as a sequence of one-character strings, so that         *)
(* concatenation (the aggregated model response, the printed output) is     *)
(* sequence concatenation.                                                  *)
EXTENDS Integers, Sequences, FiniteSets, TLC

(* ------------------------------ bounds --------------------------------- *)

\* the most chunks one model call streams
MaxChunks == 2

\* the most calls of _set_env in one run of EnvSpec
MaxSetEnvCalls == 3

(* ------------------------- cell 2: _set_env ---------------------------- *)

ApiKeyVar == "OPENAI_API_KEY"

\* the names _set_env may be called with
EnvVars == {ApiKeyVar, "OTHER_VAR"}

\* values a variable may hold before the notebook runs
OldValues == {"", "old"}

\* what the user may type at the getpass prompt (possibly nothing)
Responses == {"", "typed"}

\* os.environ.get(var) of a missing variable
None == "<None>"

\* all mappings from a subset of EnvVars to OldValues
InitEnvs == UNION {[D -> OldValues] : D \in SUBSET EnvVars}

\* os.environ.get(var)
EnvGet(e, var) == IF var \in DOMAIN e THEN e[var] ELSE None

\* Python truth value of an Optional[str]: None and "" are false
StrTruthy(v) == v # None /\ v # ""

\* os.environ[var] = value
EnvSet(e, var, value) ==
    [v \in DOMAIN e \cup {var} |-> IF v = var THEN value ELSE e[v]]

\* mutant: prompts only when the variable is missing
NeedsPrompt_OnlyIfMissing(e, var) == var \notin DOMAIN e

\* mutant: prompts whatever the variable holds
NeedsPrompt_Always(e, var) == var \in EnvVars

\* the condition of _set_env: not os.environ.get(var)
NeedsPrompt(e, var) == ~StrTruthy(EnvGet(e, var))

(* ------------------- cell 3: state, nodes, graph ----------------------- *)

START == "__start__"

Nodes == {"write_joke", "write_poem"}

\* graph.stream({"topic": "cats"}, ...)
Topic == "cats"

Inputs == [k \in {"topic"} |-> Topic]

\* the model.invoke calls write_joke makes, each with its message list
write_joke_invokes(st) ==
    <<[role |-> "user", content |-> <<"Write a joke about ", st["topic"]>>]>>

\* mutant: write_poem calls the model a second time (a retry)
write_poem_invokes_Retry(st) ==
    <<[role |-> "user", content |-> <<"Write a short poem about ", st["topic"]>>],
      [role |-> "user", content |-> <<"Write a short poem about ", st["topic"]>>]>>

\* the model.invoke calls write_poem makes, each with its message list
write_poem_invokes(st) ==
    <<[role |-> "user", content |-> <<"Write a short poem about ", st["topic"]>>]>>

\* return {"joke": joke_response.content}
write_joke_return(content) == [k \in {"joke"} |-> content]

\* mutant: write_poem returns its text under the key of write_joke
write_poem_return_JokeKey(content) == [k \in {"joke"} |-> content]

\* return {"poem": poem_response.content}
write_poem_return(content) == [k \in {"poem"} |-> content]

NodeInvokes(n, st) ==
    IF n = "write_joke" THEN write_joke_invokes(st) ELSE write_poem_invokes(st)

NodeReturn(n, content) ==
    IF n = "write_joke" THEN write_joke_return(content)
    ELSE write_poem_return(content)

\* mutant: write_poem waits for write_joke
Edges_Chain == {<<START, "write_joke">>, <<"write_joke", "write_poem">>}

\* mutant: write_poem is scheduled again after itself
Edges_Cycle ==
    {<<START, "write_joke">>, <<START, "write_poem">>,
     <<"write_poem", "write_poem">>}

\* .add_edge(START, "write_joke").add_edge(START, "write_poem")
Edges == {<<START, "write_joke">>, <<START, "write_poem">>}

Successors(S) == {m \in Nodes : \E n \in S : <<n, m>> \in Edges}

(* --------------------- cell 4: the filter loop ------------------------- *)

\* chunk contents a model call may stream; <<>> is the empty string
Contents == {<<>>, <<"a">>, <<"b">>}

\* mutant: the loop tests another metadata key
FilterKey_Other == "node"

\* metadata["langgraph_node"]
FilterKey == "langgraph_node"

\* == "write_poem"
FilterNode == "write_poem"

\* Python truth value of msg.content
ContentTruthy(content) == content # <<>>

\* `msg.content and ...`: the right operand is evaluated only if the left is
\* true
LooksUp(msg) == ContentTruthy(msg.content)

\* the lookup metadata[FilterKey] raises KeyError
RaisesKeyError(msg, metadata) ==
    LooksUp(msg) /\ FilterKey \notin DOMAIN metadata

\* mutant: the node test is dropped
Selected_AnyNode(msg, metadata) == ContentTruthy(msg.content)

\* mutant: empty chunks are printed too
Selected_NoContentTest(msg, metadata) ==
    FilterKey \in DOMAIN metadata /\ metadata[FilterKey] = FilterNode

\* msg.content and metadata["langgraph_node"] == "write_poem"
Selected(msg, metadata) ==
    /\ LooksUp(msg)
    /\ FilterKey \in DOMAIN metadata
    /\ metadata[FilterKey] = FilterNode

\* print(msg.content, end="|", flush=True)
Printed(msg) == msg.content \o <<"|">>

(* ------------------------ engine (from the spec) ----------------------- *)

\* the metadata the engine attaches to a chunk streamed by node n in step s
ChunkMetadata(n, s) == [langgraph_node |-> n, langgraph_step |-> s]

\* the state with one node's update merged in
Merge(st, update) ==
    [k \in DOMAIN st \cup DOMAIN update |->
        IF k \in DOMAIN update THEN update[k] ELSE st[k]]

RECURSIVE MergeAll(_, _, _)
\* the state with the updates of the nodes in S merged in
MergeAll(st, w, S) ==
    IF S = {} THEN st
    ELSE LET n == CHOOSE x \in S : TRUE
         IN  MergeAll(Merge(st, w[n]), w, S \ {n})

RECURSIVE Concat(_)
\* the aggregated content of a sequence of chunk contents
Concat(cs) == IF cs = <<>> THEN <<>> ELSE Head(cs) \o Concat(Tail(cs))

VARIABLES
    env,        \* os.environ
    nCalls,     \* calls of _set_env made
    callLog,    \* the calls of _set_env made, each with its argument, the
                \* environment before and after it, the number of getpass
                \* prompts it made and the response typed (None if none)
    pc,         \* "cell": the stream cell has not run; "iterating": in the
                \* for loop; "done": loop ended; "KeyError": loop raised
    state,      \* the graph state (a dictionary)
    step,       \* the engine's superstep
    tasks,      \* the nodes of the current superstep
    nodeState,  \* per node: "idle", "running", "done"
    calls,      \* per node: the model.invoke calls made (their arguments)
    emitted,    \* per node: the chunk contents its model calls streamed
    writes,     \* per node: the update the node function returned
    applied,    \* the current superstep's updates are merged into state
    queue,      \* streamed (message, metadata) pairs not yet consumed, each
                \* with the node whose model call produced it
    output,     \* what the loop printed
    lookups     \* number of metadata lookups the loop made

vars == <<env, nCalls, callLog, pc, state, step, tasks, nodeState, calls,
          emitted, writes, applied, queue, output, lookups>>

envVars == <<env, nCalls, callLog>>

streamVars == <<pc, state, step, tasks, nodeState, calls, emitted, writes,
                applied, queue, output, lookups>>

StreamInit ==
    /\ pc = "cell"
    /\ state = <<>>
    /\ step = 0
    /\ tasks = {}
    /\ nodeState = [n \in Nodes |-> "idle"]
    /\ calls = [n \in Nodes |-> <<>>]
    /\ emitted = [n \in Nodes |-> <<>>]
    /\ writes = [n \in Nodes |-> <<>>]
    /\ applied = FALSE
    /\ queue = <<>>
    /\ output = <<>>
    /\ lookups = 0

\* before cell 2 runs: any environment
EnvInit ==
    /\ env \in InitEnvs
    /\ nCalls = 0
    /\ callLog = <<>>
    /\ StreamInit

\* after cells 1-3 ran: the key is set, the graph is compiled
Init ==
    /\ env = [v \in {ApiKeyVar} |-> "old"]
    /\ nCalls = 0
    /\ callLog = <<>>
    /\ StreamInit

(* ------------------------------ actions -------------------------------- *)

\* _set_env(var), the user typing `response` if prompted
SetEnv(var, response) ==
    /\ nCalls < MaxSetEnvCalls
    /\ nCalls' = nCalls + 1
    /\ IF NeedsPrompt(env, var)
       THEN /\ env' = EnvSet(env, var, response)
            /\ callLog' = Append(callLog,
                    [var |-> var, before |-> env,
                     after |-> EnvSet(env, var, response),
                     prompts |-> 1, response |-> response])
       ELSE /\ env' = env
            /\ callLog' = Append(callLog,
                    [var |-> var, before |-> env, after |-> env,
                     prompts |-> 0, response |-> None])
    /\ UNCHANGED streamVars

\* graph.stream(inputs, stream_mode="messages") is entered: the input is the
\* state and the successors of START are the first superstep
StreamStart ==
    /\ pc = "cell"
    /\ pc' = "iterating"
    /\ state' = Inputs
    /\ step' = 1
    /\ tasks' = Successors({START})
    /\ UNCHANGED <<nodeState, calls, emitted, writes, applied, queue, output,
                   lookups>>
    /\ UNCHANGED envVars

\* node n of the current superstep starts and calls model.invoke
StartNode(n) ==
    /\ pc = "iterating"
    /\ n \in tasks
    /\ nodeState[n] = "idle"
    /\ nodeState' = [nodeState EXCEPT ![n] = "running"]
    /\ calls' = [calls EXCEPT ![n] = @ \o NodeInvokes(n, state)]
    /\ UNCHANGED <<pc, state, step, tasks, emitted, writes, applied, queue,
                   output, lookups>>
    /\ UNCHANGED envVars

\* the model call of node n streams one chunk
EmitChunk(n, content) ==
    /\ pc = "iterating"
    /\ nodeState[n] = "running"
    /\ Len(emitted[n]) < MaxChunks
    /\ emitted' = [emitted EXCEPT ![n] = Append(@, content)]
    /\ queue' = Append(queue, [msg |-> [content |-> content],
                               metadata |-> ChunkMetadata(n, step),
                               producer |-> n])
    /\ UNCHANGED <<pc, state, step, tasks, nodeState, calls, writes, applied,
                   output, lookups>>
    /\ UNCHANGED envVars

\* the model call of node n returns and the node function returns its update
FinishNode(n) ==
    /\ pc = "iterating"
    /\ nodeState[n] = "running"
    /\ nodeState' = [nodeState EXCEPT ![n] = "done"]
    /\ writes' = [writes EXCEPT ![n] = NodeReturn(n, Concat(emitted[n]))]
    /\ UNCHANGED <<pc, state, step, tasks, calls, emitted, applied, queue,
                   output, lookups>>
    /\ UNCHANGED envVars

\* every node of the superstep returned: the engine merges their updates
ApplyWrites ==
    /\ pc = "iterating"
    /\ ~applied
    /\ tasks # {}
    /\ \A n \in tasks : nodeState[n] = "done"
    /\ state' = MergeAll(state, writes, tasks)
    /\ applied' = TRUE
    /\ UNCHANGED <<pc, step, tasks, nodeState, calls, emitted, writes, queue,
                   output, lookups>>
    /\ UNCHANGED envVars

\* one iteration of the for loop: the next pair is taken and filtered
LoopBody ==
    /\ pc = "iterating"
    /\ queue # <<>>
    /\ LET msg == Head(queue).msg
           metadata == Head(queue).metadata
       IN  /\ queue' = Tail(queue)
           /\ lookups' = IF LooksUp(msg) THEN lookups + 1 ELSE lookups
           /\ IF RaisesKeyError(msg, metadata)
              THEN pc' = "KeyError" /\ output' = output
              ELSE /\ pc' = pc
                   /\ output' = IF Selected(msg, metadata)
                                THEN output \o Printed(msg)
                                ELSE output
    /\ UNCHANGED <<state, step, tasks, nodeState, calls, emitted, writes,
                   applied>>
    /\ UNCHANGED envVars

\* the stream is exhausted: every node returned, the updates are merged, no
\* node is scheduled next and nothing is queued
LoopEnd ==
    /\ pc = "iterating"
    /\ queue = <<>>
    /\ applied
    /\ Successors(tasks) = {}
    /\ pc' = "done"
    /\ UNCHANGED <<state, step, tasks, nodeState, calls, emitted, writes,
                   applied, queue, output, lookups>>
    /\ UNCHANGED envVars

EnvNext == \E var \in EnvVars, response \in Responses : SetEnv(var, response)

Next ==
    \/ StreamStart
    \/ \E n \in Nodes : StartNode(n)
    \/ \E n \in Nodes, content \in Contents : EmitChunk(n, content)
    \/ \E n \in Nodes : FinishNode(n)
    \/ ApplyWrites
    \/ LoopBody
    \/ LoopEnd

\* _set_env applied to bounded inputs
EnvSpec == EnvInit /\ [][EnvNext]_vars

\* the stream cell
Spec == Init /\ [][Next]_vars

\* the stream cell with every thread scheduled fairly and every model call
\* returning; a model call need not stream another chunk
Fairness ==
    /\ WF_vars(StreamStart)
    /\ \A n \in Nodes : WF_vars(StartNode(n))
    /\ \A n \in Nodes : WF_vars(FinishNode(n))
    /\ WF_vars(ApplyWrites)
    /\ WF_vars(LoopBody)
    /\ WF_vars(LoopEnd)

LiveSpec == Init /\ [][Next]_vars /\ Fairness

(* --------------------------- properties -------------------------------- *)

\* the non-empty contents of a sequence of chunk contents
NonEmpty(cs) == SelectSeq(cs, LAMBDA c : c # <<>>)

RECURSIVE Render(_)
\* what printing each content of cs with end="|" writes
Render(cs) ==
    IF cs = <<>> THEN <<>> ELSE Head(cs) \o <<"|">> \o Render(Tail(cs))

RECURSIVE ContentsOf(_)
\* the contents of a sequence of queued pairs
ContentsOf(q) ==
    IF q = <<>> THEN <<>> ELSE <<Head(q).msg.content>> \o ContentsOf(Tail(q))

\* the queued pairs node n produced
QueuedBy(n) == SelectSeq(queue, LAMBDA e : e.producer = n)

AllDone == \A n \in Nodes : nodeState[n] = "done"

\* C1: whenever the loop prints, the pair it took was produced by write_poem:
\* no chunk of write_joke (or of any other node) is ever printed.
C1_OnlyPoemPrinted ==
    [][output' # output =>
         /\ queue # <<>>
         /\ Head(queue).producer = "write_poem"
         /\ output' = output \o Printed(Head(queue).msg)]_vars

\* C1 witness: the loop ended having taken two non-empty chunks of write_joke
\* and one of write_poem, and printed only the latter.
C1_Witness ==
    /\ pc = "done"
    /\ emitted["write_joke"] = <<<<"a">>, <<"b">>>>
    /\ emitted["write_poem"] = <<<<"b">>>>
    /\ output = <<"b", "|">>

\* C2 as stated: a call of _set_env prompts exactly when its variable is
\* missing from the environment.
C2_PromptsIffUnset ==
    \A i \in 1..Len(callLog) :
        (callLog[i].prompts = 1) <=> (callLog[i].var \notin DOMAIN callLog[i].before)

\* C2 amended: a call of _set_env prompts exactly when its variable is missing
\* or holds the empty string; it prompts at most once; a variable holding a
\* non-empty value is not prompted for and keeps its value; when it prompts,
\* the response is stored under the variable.
C2_PromptsIffUnsetOrEmpty ==
    \A i \in 1..Len(callLog) :
        LET c == callLog[i]
            unset == c.var \notin DOMAIN c.before
            empty == c.var \in DOMAIN c.before /\ c.before[c.var] = ""
        IN  /\ c.prompts \in {0, 1}
            /\ (c.prompts = 1) <=> (unset \/ empty)
            /\ c.prompts = 0 => c.after = c.before
            /\ c.prompts = 1 => /\ c.var \in DOMAIN c.after
                                /\ c.after[c.var] = c.response
                                /\ c.response \in Responses
            /\ i = Len(callLog) => env = c.after

\* C2 witness: _set_env was called for a variable set to the empty string and
\* prompted.
C2_Witness ==
    /\ Len(callLog) = 1
    /\ callLog[1].var = ApiKeyVar
    /\ ApiKeyVar \in DOMAIN callLog[1].before
    /\ callLog[1].before[ApiKeyVar] = ""
    /\ callLog[1].prompts = 1
    /\ env[ApiKeyVar] = "typed"

\* C3: both nodes are successors of START and nothing follows them; in the
\* stream call both are tasks of the first superstep; an idle node can start,
\* a running node can stream a chunk (up to the bound) and can finish,
\* whatever the other node is doing.
C3_BothNodesConcurrent ==
    /\ Successors({START}) = Nodes
    /\ Successors(Nodes) = {}
    /\ Cardinality(Nodes) = 2
    /\ pc = "iterating" =>
         /\ tasks = Nodes
         /\ step = 1
         /\ \A n \in Nodes :
              /\ nodeState[n] = "idle" => ENABLED StartNode(n)
              /\ nodeState[n] = "running" => ENABLED FinishNode(n)
              /\ nodeState[n] = "running" /\ Len(emitted[n]) < MaxChunks =>
                   \A c \in Contents : ENABLED EmitChunk(n, c)

\* C3 witness: write_poem has streamed its chunks and finished while
\* write_joke has not started yet.
C3_Witness ==
    /\ pc = "iterating"
    /\ nodeState["write_poem"] = "done"
    /\ nodeState["write_joke"] = "idle"
    /\ Len(emitted["write_poem"]) = 2

\* C4: each node makes at most one model call, exactly one once it has
\* started, and exactly one when the loop has ended.
C4_OneModelCallPerNode ==
    \A n \in Nodes :
        /\ Len(calls[n]) <= 1
        /\ nodeState[n] = "idle" => Len(calls[n]) = 0
        /\ nodeState[n] # "idle" => Len(calls[n]) = 1
        /\ pc = "done" => nodeState[n] = "done" /\ Len(calls[n]) = 1

\* C4 witness: the loop has ended and both nodes streamed chunks.
C4_Witness ==
    /\ pc = "done"
    /\ Len(calls["write_joke"]) = 1
    /\ Len(calls["write_poem"]) = 1
    /\ Len(emitted["write_joke"]) = 2
    /\ Len(emitted["write_poem"]) = 2

\* C5: what is printed, followed by what the queued chunks of write_poem will
\* print, is the rendering of write_poem's non-empty chunks in emission order;
\* at the end of the loop the output is exactly that rendering.
C5_OutputIsPoemChunks ==
    /\ pc # "cell" =>
         output \o Render(NonEmpty(ContentsOf(QueuedBy("write_poem"))))
           = Render(NonEmpty(emitted["write_poem"]))
    /\ pc = "done" => output = Render(NonEmpty(emitted["write_poem"]))

\* C5 witness: write_poem streamed an empty and a non-empty chunk, write_joke
\* streamed non-empty chunks, and the loop ended.
C5_Witness ==
    /\ pc = "done"
    /\ emitted["write_poem"] = <<<<>>, <<"a">>>>
    /\ emitted["write_joke"] = <<<<"b">>, <<"b">>>>
    /\ output = <<"a", "|">>

\* C6: the update of write_joke has the single key joke and that of write_poem
\* the single key poem; topic always holds the input topic; until the updates
\* are merged the state is the input, and afterwards it holds the input topic,
\* write_joke's response and write_poem's response.
C6_StateUpdates ==
    /\ nodeState["write_joke"] = "done" =>
         writes["write_joke"] = [k \in {"joke"} |-> Concat(emitted["write_joke"])]
    /\ nodeState["write_poem"] = "done" =>
         writes["write_poem"] = [k \in {"poem"} |-> Concat(emitted["write_poem"])]
    /\ pc # "cell" /\ ~applied => state = Inputs
    /\ applied =>
         state = [topic |-> Topic,
                  joke |-> Concat(emitted["write_joke"]),
                  poem |-> Concat(emitted["write_poem"])]
    /\ \A n \in Nodes : \A i \in 1..Len(calls[n]) :
         calls[n][i].content[2] = Topic

\* C6 witness: both updates are merged and differ.
C6_Witness ==
    /\ applied
    /\ state["joke"] = <<"a", "b">>
    /\ state["poem"] = <<"b">>
    /\ state["topic"] = "cats"

\* C7: the loop never raises KeyError; every queued pair carries the key the
\* loop reads, naming its producer; the loop looked up the metadata of exactly
\* the non-empty chunks it took.
C7_NoKeyError ==
    /\ pc # "KeyError"
    /\ \A i \in 1..Len(queue) :
         /\ FilterKey \in DOMAIN queue[i].metadata
         /\ queue[i].metadata[FilterKey] = queue[i].producer
    /\ lookups + Len(NonEmpty(ContentsOf(queue)))
         = Len(NonEmpty(emitted["write_joke"])) + Len(NonEmpty(emitted["write_poem"]))

\* C7 witness: the loop ended after taking empty and non-empty chunks.
C7_Witness ==
    /\ pc = "done"
    /\ lookups = 1
    /\ Len(emitted["write_joke"]) + Len(emitted["write_poem"]) = 3

\* C8: after a call of _set_env the variable is present and holds its previous
\* value if that was non-empty, otherwise the response; no other variable is
\* added, removed or changed; the next call for the same variable starts from
\* the stored value and prompts only if that value is empty.
C8_SetEnvResult ==
    \A i \in 1..Len(callLog) :
        LET c == callLog[i]
            had == c.var \in DOMAIN c.before /\ c.before[c.var] # ""
        IN  /\ c.var \in DOMAIN c.after
            /\ c.after[c.var] = IF had THEN c.before[c.var] ELSE c.response
            /\ DOMAIN c.after = DOMAIN c.before \cup {c.var}
            /\ \A w \in DOMAIN c.before \ {c.var} : c.after[w] = c.before[w]
            /\ i = Len(callLog) => env = c.after
            /\ i < Len(callLog) => callLog[i + 1].before = c.after
            /\ i < Len(callLog) /\ callLog[i + 1].var = c.var =>
                 (callLog[i + 1].prompts = 1 => c.after[c.var] = "")

\* C8 witness: a variable set to the empty string was prompted for, the user
\* typed nothing, and the second call prompted again; the other variable kept
\* its value.
C8_Witness ==
    /\ Len(callLog) = 2
    /\ callLog[1].var = ApiKeyVar
    /\ callLog[2].var = ApiKeyVar
    /\ callLog[1].before = [v \in EnvVars |-> IF v = ApiKeyVar THEN "" ELSE "old"]
    /\ callLog[1].prompts = 1
    /\ callLog[1].response = ""
    /\ callLog[2].prompts = 1
    /\ env = [v \in EnvVars |-> IF v = ApiKeyVar THEN "typed" ELSE "old"]

\* C9: once the updates of both nodes are merged no node is scheduled next,
\* and under fair scheduling the loop ends, and stays ended.
C9_LoopTerminates ==
    /\ [](applied => AllDone /\ Successors(tasks) = {})
    /\ <>[](pc = "done")

\* C9 witness: the loop has ended with both nodes done, nothing queued and no
\* node scheduled next.
C9_Witness ==
    /\ pc = "done"
    /\ AllDone
    /\ queue = <<>>
    /\ Successors(tasks) = {}
    /\ Len(output) = 4

==========================================================================
